---- MODULE Spec2Model ----
(***************************************************************************)
(* Model of src/cpp/sampler.hpp (LogicalVision2): 3-D Bresenham line and   *)
(* segment rasterization and the Scharr-gradient threshold samplers.       *)
(*                                                                         *)
(* A Scalar is a tuple <<column, row, frame>> (TLA+ indices 1, 2, 3 for    *)
(* the C++ indices 0, 1, 2).  Points and bounds hold integers.  A          *)
(* direction is a Scalar of doubles: the model writes each component in    *)
(* halves (the value h stands for h/2), so that components of magnitude    *)
(* below 1 exist and the conversion `int dx = direction[0]` is a real      *)
(* truncation.                                                             *)
(***************************************************************************)
EXTENDS Integers, Sequences, FiniteSets, TLC

(* ------------------------------ bounds -------------------------------- *)
MaxW == 4
MaxH == 3
MaxD == 2
MaxDir == 2
MaxScale == 3
ImgW == 3
ImgH == 3
ImgD == 5

(* the call stack holds this many nested bresenham() frames; a ray inside  *)
(* the largest canvas needs at most max(MaxW, MaxH, MaxD) + 1 of them      *)
StackLimit == MaxW + MaxH + MaxD + 2

Abs(n) == IF n < 0 THEN -n ELSE n

(* ------------------------------ inputs -------------------------------- *)
Bounds == {<<MaxW, MaxH, MaxD>>, <<MaxW, MaxH, 1>>}

Points == (-1..MaxW) \X (-1..MaxH) \X (-1..MaxD)

(* direction components, in halves: the integers -MaxDir..MaxDir and +-1/2 *)
DirHalves == {h \in (-2 * MaxDir)..(2 * MaxDir) : h % 2 = 0 \/ Abs(h) = 1}

Directions == DirHalves \X DirHalves \X DirHalves

RasterFns == {"get_line_points", "get_line_seg_points"}

LineFns == {"get_line_points", "cv_line_pts_scharr_geq_T",
            "cv_line_pts_var_geq_T"}

SegFns == {"get_line_seg_points", "cv_line_seg_pts_scharr_geq_T",
           "cv_line_seg_pts_var_geq_T"}

Origin == <<0, 0, 0>>

(* ------------------------------ state --------------------------------- *)
VARIABLES
    fn,         \* the entry point that was called
    point,      \* get_line_points: seed point
    direction,  \* get_line_points: direction, in halves
    start,      \* get_line_seg_points: start
    end,        \* get_line_seg_points: end
    bound,      \* size of the 3-d space
    pc,         \* position of the call
    depth,      \* nested bresenham() frames on the call stack
    current,    \* bresenham: current; get_line_seg_points: (x, y, z)
    inc,        \* bresenham: inc
    target,     \* get_line_seg_points: (x2, y2, z2)
    delta,      \* get_line_seg_points: (dx, dy, dz)
    points,     \* the vector of rasterized points being built / returned
    images,     \* the frame sequence: one ramp slope per frame (see Pixel)
    grad_threshold,
    re,         \* gradient sampler: the returned vector
    it,         \* gradient sampler: index of the loop iterator in points
    cont,       \* gradient sampler: flag of continuous component existence
    tmp_last,   \* gradient sampler: temporary last point
    tmp_max,    \* gradient sampler: max gradient point
    tmp_g,      \* gradient sampler: max gradient intensity, as (32 G)^2
    oob,        \* a pixel lookup outside the frame sequence was made
    deref       \* an element of an empty vector was read

rvars == <<fn, point, direction, start, end, bound, depth, current, inc,
           target, delta, points>>

svars == <<images, grad_threshold, re, it, cont, tmp_last, tmp_max, tmp_g,
           oob, deref>>

\* the experiments on the remaining entry points
VARIABLES
    scale,       \* get_line_points: the factor k of the second call
    unscaled,    \* get_line_points: what the first call returned
    call,        \* get_line_points: 1 for the call with d, 2 for k * d
    radius,      \* bound_scalar_3d, cv_imgs_point_var_loc: radius
    box,         \* bound_scalar_3d: the vector returned
    var,         \* cv_line_pts_var_geq_T: the last local variance
    var_threshold, \* cv_line_pts_var_geq_T: var_threshold
    nan_dropped, \* cv_line_pts_var_geq_T: points left out on a NaN compare
    NDEBUG,      \* fit_ellipse: whether the build defines NDEBUG
    centre,      \* fit_ellipse: output argument centre
    param,       \* fit_ellipse: output argument param
    touched,     \* fit_ellipse: what the call has read or built
    points_1,    \* compare_hist: first point set
    points_2,    \* compare_hist: second point set
    kl,          \* compare_hist: the value returned
    kl_swapped   \* compare_hist: the value returned for (points_2, points_1)

locvars == <<radius, box, var, var_threshold, nan_dropped>>

fitvars == <<NDEBUG, centre, param, touched>>

histvars == <<points_1, points_2, kl, kl_swapped>>

xvars == <<scale, unscaled, call, locvars, fitvars, histvars>>

vars == <<pc, rvars, svars, xvars>>

(* ------------------------- pure helpers ------------------------------- *)

(* double -> int conversion of a direction component written in halves:   *)
(* truncation toward zero                                                 *)
ToInt(h) == IF h >= 0 THEN h \div 2 ELSE -((-h) \div 2)

out_of_canvas(p, b) ==
    ~(  p[1] >= 0 /\ p[1] <= b[1] - 1
     /\ p[2] >= 0 /\ p[2] <= b[2] - 1
     /\ p[3] >= 0 /\ p[3] <= b[3] - 1)

Reverse(s) == [i \in 1..Len(s) |-> s[Len(s) + 1 - i]]

(* ForLoop with the loop test cont < n - 1: one step short of a period of  *)
(* the error trackers                                                      *)
RECURSIVE ForLoop_StopsEarly(_, _, _, _, _, _, _)
ForLoop_StopsEarly(k, n, p, err_1, err_2, acc, c) ==
    IF k >= n - 1
    THEN [p |-> p, acc |-> acc]
    ELSE LET p1 == IF err_1 > 0 THEN [p EXCEPT ![c.b1] = @ + c.inc[c.b1]] ELSE p
             e1 == IF err_1 > 0 THEN err_1 - c.a2 ELSE err_1
             p2 == IF err_2 > 0 THEN [p1 EXCEPT ![c.b2] = @ + c.inc[c.b2]] ELSE p1
             e2 == IF err_2 > 0 THEN err_2 - c.a2 ELSE err_2
             p3 == [p2 EXCEPT ![c.a] = @ + c.inc[c.a]]
         IN  IF ~out_of_canvas(p3, c.bound) /\ p3 # c.tgt
             THEN ForLoop_StopsEarly(k + 1, n, p3, e1 + c.d1, e2 + c.d2,
                                     Append(acc, p3), c)
             ELSE [p |-> p3, acc |-> acc]

(* ForLoop whose break test forgets the segment's end point *)
RECURSIVE ForLoop_NoTargetTest(_, _, _, _, _, _, _)
ForLoop_NoTargetTest(k, n, p, err_1, err_2, acc, c) ==
    IF k >= n
    THEN [p |-> p, acc |-> acc]
    ELSE LET p1 == IF err_1 > 0 THEN [p EXCEPT ![c.b1] = @ + c.inc[c.b1]] ELSE p
             e1 == IF err_1 > 0 THEN err_1 - c.a2 ELSE err_1
             p2 == IF err_2 > 0 THEN [p1 EXCEPT ![c.b2] = @ + c.inc[c.b2]] ELSE p1
             e2 == IF err_2 > 0 THEN err_2 - c.a2 ELSE err_2
             p3 == [p2 EXCEPT ![c.a] = @ + c.inc[c.a]]
         IN  IF ~out_of_canvas(p3, c.bound)
             THEN ForLoop_NoTargetTest(k + 1, n, p3, e1 + c.d1, e2 + c.d2,
                                       Append(acc, p3), c)
             ELSE [p |-> p3, acc |-> acc]

(* One `for (cont = 0; cont < n; cont++)` loop of the Bresenham stepping;   *)
(* k is the loop counter cont.                                             *)
(* c.a is the driving axis, c.b1 / c.b2 the axes of err_1 / err_2, c.a2    *)
(* the doubled driving delta, c.d1 / c.d2 the doubled deltas added to      *)
(* err_1 / err_2.  c.tgt is the segment's end point, or <<>> for a line    *)
(* (no point equals it).  Returns the position reached and the vector.     *)
RECURSIVE ForLoop(_, _, _, _, _, _, _)
ForLoop(k, n, p, err_1, err_2, acc, c) ==
    IF k >= n
    THEN [p |-> p, acc |-> acc]
    ELSE LET p1 == IF err_1 > 0 THEN [p EXCEPT ![c.b1] = @ + c.inc[c.b1]] ELSE p
             e1 == IF err_1 > 0 THEN err_1 - c.a2 ELSE err_1
             p2 == IF err_2 > 0 THEN [p1 EXCEPT ![c.b2] = @ + c.inc[c.b2]] ELSE p1
             e2 == IF err_2 > 0 THEN err_2 - c.a2 ELSE err_2
             p3 == [p2 EXCEPT ![c.a] = @ + c.inc[c.a]]
         IN  IF ~out_of_canvas(p3, c.bound) /\ p3 # c.tgt
             THEN ForLoop(k + 1, n, p3, e1 + c.d1, e2 + c.d2, Append(acc, p3), c)
             ELSE [p |-> p3, acc |-> acc]

(* The three `if` blocks that pick the driving axis and run its loop:      *)
(* column first, then row, then frame.  d is (dx, dy, dz) as ints.         *)
Stepping(p, acc, d, i, b, tgt) ==
    LET Adx == Abs(d[1])
        Ady == Abs(d[2])
        Adz == Abs(d[3])
        dx2 == Adx * 2
        dy2 == Ady * 2
        dz2 == Adz * 2
        s0 == [p |-> p, acc |-> acc]
        s1 == IF Adx >= Ady /\ Adx >= Adz
              THEN ForLoop(0, Adx, s0.p, dy2 - Adx, dz2 - Adx, s0.acc,
                           [a |-> 1, b1 |-> 2, b2 |-> 3, a2 |-> dx2,
                            d1 |-> dy2, d2 |-> dz2, inc |-> i, bound |-> b,
                            tgt |-> tgt])
              ELSE s0
        s2 == IF Ady > Adx /\ Ady >= Adz
              THEN ForLoop(0, Ady, s1.p, dx2 - Ady, dz2 - Ady, s1.acc,
                           [a |-> 2, b1 |-> 1, b2 |-> 3, a2 |-> dy2,
                            d1 |-> dx2, d2 |-> dz2, inc |-> i, bound |-> b,
                            tgt |-> tgt])
              ELSE s1
        s3 == IF Adz > Adx /\ Adz > Ady
              THEN ForLoop(0, Adz, s2.p, dy2 - Adz, dx2 - Adz, s2.acc,
                           [a |-> 3, b1 |-> 2, b2 |-> 1, a2 |-> dz2,
                            d1 |-> dy2, d2 |-> dx2, inc |-> i, bound |-> b,
                            tgt |-> tgt])
              ELSE s2
    IN  s3

(* where a rasterizer returns to: its caller is the program's user or a    *)
(* gradient sampler                                                        *)
ReturnPc == IF fn \in RasterFns THEN "done" ELSE "sample_begin"

(* --------------------------- get_line_points -------------------------- *)

Sign(h) == IF h > 0 THEN 1 ELSE -1

(* GetLinePointsEnter without the zero-direction test of lines 485-488 *)
GetLinePointsEnter_NoZeroTest ==
    /\ pc = "entry"
    /\ fn \in LineFns
    /\ inc' = <<Sign(direction[1]), Sign(direction[2]), Sign(direction[3])>>
    /\ current' = point
    /\ depth' = 1
    /\ pc' = "bresenham_1"
    /\ UNCHANGED svars
    /\ UNCHANGED xvars
    /\ UNCHANGED <<fn, point, direction, start, end, bound, target, delta, points>>

(* lines 480-498: zero-direction test, increments, first bresenham() call *)
GetLinePointsEnter ==
    /\ pc = "entry"
    /\ fn \in LineFns
    /\ IF direction[1] = 0 /\ direction[2] = 0 /\ direction[3] = 0
       THEN /\ pc' = ReturnPc
            /\ UNCHANGED <<inc, current, depth>>
       ELSE /\ inc' = <<Sign(direction[1]), Sign(direction[2]), Sign(direction[3])>>
            /\ current' = point
            /\ depth' = 1
            /\ pc' = "bresenham_1"
    /\ UNCHANGED svars
    /\ UNCHANGED xvars
    /\ UNCHANGED <<fn, point, direction, start, end, bound, target, delta, points>>

(* lines 638-736: one invocation of bresenham(): the stepping loop, then   *)
(* the recursive call when the position reached is in canvas, else return  *)
Bresenham ==
    /\ pc \in {"bresenham_1", "bresenham_2"}
    /\ LET d == <<ToInt(direction[1]), ToInt(direction[2]), ToInt(direction[3])>>
           s == Stepping(current, points, d, inc, bound, <<>>)
       IN  /\ points' = s.acc
           /\ current' = s.p
           /\ IF ~out_of_canvas(s.p, bound)
              THEN IF depth < StackLimit
                   THEN depth' = depth + 1 /\ pc' = pc
                   ELSE depth' = depth /\ pc' = "stack_overflow"
              ELSE /\ depth' = 0
                   /\ pc' = IF pc = "bresenham_1" THEN "turn" ELSE "line_return"
    /\ UNCHANGED svars
    /\ UNCHANGED xvars
    /\ UNCHANGED <<fn, point, direction, start, end, bound, inc, target, delta>>

(* GetLinePointsTurn without the reverse() of line 500 *)
GetLinePointsTurn_NoReverse ==
    /\ pc = "turn"
    /\ points' = Append(points, point)
    /\ inc' = <<-1 * inc[1], -1 * inc[2], -1 * inc[3]>>
    /\ current' = point
    /\ depth' = 1
    /\ pc' = "bresenham_2"
    /\ UNCHANGED svars
    /\ UNCHANGED xvars
    /\ UNCHANGED <<fn, point, direction, start, end, bound, target, delta>>

(* lines 500-509: reverse, insert the seed, grow in the other direction *)
GetLinePointsTurn ==
    /\ pc = "turn"
    /\ points' = Append(Reverse(points), point)
    /\ inc' = <<-1 * inc[1], -1 * inc[2], -1 * inc[3]>>
    /\ current' = point
    /\ depth' = 1
    /\ pc' = "bresenham_2"
    /\ UNCHANGED svars
    /\ UNCHANGED xvars
    /\ UNCHANGED <<fn, point, direction, start, end, bound, target, delta>>

(* lines 510-512 *)
GetLinePointsReturn ==
    /\ pc = "line_return"
    /\ points' = Reverse(points)
    /\ pc' = ReturnPc
    /\ UNCHANGED svars
    /\ UNCHANGED xvars
    /\ UNCHANGED <<fn, point, direction, start, end, bound, depth, current, inc,
                   target, delta>>

(* ------------------------- get_line_seg_points ------------------------ *)

(* SWAP whose last statement subtracts the old b: a = a + b; b = a - b;    *)
(* a = a - (old b)                                                         *)
SWAP_OldB(a, b) ==
    LET a1 == a + b
        b1 == a1 - b
        a2 == a1 - b
    IN  <<a2, b1>>

(* line 28: #define SWAP(a, b) {a = a + b; b = a - b; a = a - b;} on the   *)
(* pair <<a, b>>                                                           *)
SWAP(a, b) ==
    LET a1 == a + b
        b1 == a1 - b
        a2 == a1 - b1
    IN  <<a2, b1>>

(* lines 515-558: early returns, the swap, the first point, the deltas *)
GetLineSegPointsEnter ==
    /\ pc = "entry"
    /\ fn \in SegFns
    /\ IF start = end
       THEN /\ pc' = ReturnPc
            /\ UNCHANGED <<current, target, delta, inc, points>>
       ELSE IF out_of_canvas(start, bound) /\ out_of_canvas(end, bound)
       THEN /\ pc' = ReturnPc
            /\ UNCHANGED <<current, target, delta, inc, points>>
       ELSE LET sw == out_of_canvas(start, bound) /\ ~out_of_canvas(end, bound)
                xs == IF sw THEN SWAP(start[1], end[1]) ELSE <<start[1], end[1]>>
                ys == IF sw THEN SWAP(start[2], end[2]) ELSE <<start[2], end[2]>>
                zs == IF sw THEN SWAP(start[3], end[3]) ELSE <<start[3], end[3]>>
                xyz == <<xs[1], ys[1], zs[1]>>
                xyz2 == <<xs[2], ys[2], zs[2]>>
                d == <<xyz2[1] - xyz[1], xyz2[2] - xyz[2], xyz2[3] - xyz[3]>>
            IN  /\ points' = <<xyz>>
                /\ current' = xyz
                /\ target' = xyz2
                /\ delta' = d
                /\ inc' = <<Sign(d[1]), Sign(d[2]), Sign(d[3])>>
                /\ pc' = "seg_while"
    /\ UNCHANGED svars
    /\ UNCHANGED xvars
    /\ UNCHANGED <<fn, point, direction, start, end, bound, depth>>

(* lines 560-633: one pass of the while loop's body *)
GetLineSegPointsWhile ==
    /\ pc = "seg_while"
    /\ ~out_of_canvas(current, bound) /\ current # target
    /\ LET s == Stepping(current, points, delta, inc, bound, target)
       IN  /\ points' = s.acc
           /\ current' = s.p
    /\ UNCHANGED svars
    /\ UNCHANGED xvars
    /\ UNCHANGED <<fn, point, direction, start, end, bound, pc, depth, inc,
                   target, delta>>

(* GetLineSegPointsReturn without the push_back of line 634 *)
GetLineSegPointsReturn_NoEnd ==
    /\ pc = "seg_while"
    /\ ~(~out_of_canvas(current, bound) /\ current # target)
    /\ pc' = ReturnPc
    /\ UNCHANGED svars
    /\ UNCHANGED xvars
    /\ UNCHANGED <<fn, point, direction, start, end, bound, depth, current, inc,
                   target, delta, points>>

(* lines 560-561 (loop exit), 634-635 *)
GetLineSegPointsReturn ==
    /\ pc = "seg_while"
    /\ ~(~out_of_canvas(current, bound) /\ current # target)
    /\ points' = Append(points, target)
    /\ pc' = ReturnPc
    /\ UNCHANGED svars
    /\ UNCHANGED xvars
    /\ UNCHANGED <<fn, point, direction, start, end, bound, depth, current, inc,
                   target, delta>>

(* ------------------------ cv_imgs_point_scharr ------------------------ *)

(* ramp slopes of the frames the samplers are run on *)
Slopes == {0, 10, 20}

(* channel 0 of images[f].at<Vec3b>(r, c).  Every frame is ImgW columns   *)
(* by ImgH rows and holds a horizontal brightness ramp: slope * column.    *)
Pixel(imgs, f, r, c) == imgs[f + 1] * c

(* the Scharr kernels of lines 321-326, before the division by 32 *)
gx == <<<<3, 10, 3>>, <<0, 0, 0>>, <<-3, -10, -3>>>>

gy == <<<<3, 0, -3>>, <<10, 0, -10>>, <<3, 0, -3>>>>

(* line 307: the point is within one pixel of the frame border *)
AtBorder(pt) ==
    pt[1] < 1 \/ pt[2] < 1 \/ pt[1] > ImgW - 2 \/ pt[2] > ImgH - 2

(* the pixel lookups <<frame, row, col>> of lines 310-319 *)
ScharrLookups(pt) ==
    IF AtBorder(pt)
    THEN {}
    ELSE {<<pt[3], pt[2] - 1 + i, pt[1] - 1 + j>> : i \in 0..2, j \in 0..2}

InImages(imgs, l) ==
    /\ l[1] >= 0 /\ l[1] <= Len(imgs) - 1
    /\ l[2] >= 0 /\ l[2] <= ImgH - 1
    /\ l[3] >= 0 /\ l[3] <= ImgW - 1

(* lines 299-337.  The result G = sqrt(Gx^2 + Gy^2) with Gx, Gy sums of     *)
(* kernel/32 times pixel is returned as (32 G)^2, an integer that orders   *)
(* gradients as G does; a threshold T is compared as (32 T)^2.             *)
cv_imgs_point_scharr(imgs, pt) ==
    IF AtBorder(pt)
    THEN 0
    ELSE LET A(i, j) == Pixel(imgs, pt[3], pt[2] - 1 + i, pt[1] - 1 + j)
             Gx == gx[3][3] * A(0, 0) + gx[3][2] * A(0, 1) + gx[3][1] * A(0, 2)
                 + gx[2][3] * A(1, 0) + gx[2][2] * A(1, 1) + gx[2][1] * A(1, 2)
                 + gx[1][3] * A(2, 0) + gx[1][2] * A(2, 1) + gx[1][1] * A(2, 2)
             Gy == gy[3][3] * A(0, 0) + gy[3][2] * A(0, 1) + gy[3][1] * A(0, 2)
                 + gy[2][3] * A(1, 0) + gy[2][2] * A(1, 1) + gy[2][1] * A(1, 2)
                 + gy[1][3] * A(2, 0) + gy[1][2] * A(2, 1) + gy[1][1] * A(2, 2)
         IN  Gx * Gx + Gy * Gy

Scaled(T) == (32 * T) * (32 * T)

(* outcomes of an undefined read: the call crashes, or goes on with v *)
Undefined(values) ==
    {[crash |-> TRUE, v |-> 0]} \cup {[crash |-> FALSE, v |-> x] : x \in values}

Defined(value) == {[crash |-> FALSE, v |-> value]}

(* what a read outside the frame sequence can make the gradient *)
AnyGradient == {Scaled(g) : g \in Slopes}

(* what a read of an element of an empty vector can yield *)
AnyScalar == {Origin, <<-1, -1, -1>>}

point_cont(p1, p2) ==
    LET v == {Abs(p1[1] - p2[1]), Abs(p1[2] - p2[2]), Abs(p1[3] - p2[3])}
    IN  \A m \in v : m < 2

(* ------ cv_line_pts_scharr_geq_T / cv_line_seg_pts_scharr_geq_T ------- *)

(* lines 854-859 / 897-902: the first rasterized point is pushed.  On an   *)
(* empty vector *begin() is undefined: the call crashes or reads garbage.  *)
ScharrBegin ==
    /\ pc = "sample_begin"
    /\ IF Len(points) > 0
       THEN /\ re' = <<points[1]>>
            /\ pc' = "sample_loop"
            /\ deref' = deref
       ELSE /\ deref' = TRUE
            /\ \E first \in Undefined(AnyScalar) :
                 IF first.crash
                 THEN re' = re /\ pc' = "crash"
                 ELSE re' = <<first.v>> /\ pc' = "sample_loop"
    /\ it' = 1
    /\ cont' = FALSE
    /\ UNCHANGED <<images, grad_threshold, tmp_last, tmp_max, tmp_g, oob>>
    /\ UNCHANGED rvars
    /\ UNCHANGED xvars

(* lines 860-883 / 903-927: one iteration of the loop over line_points.    *)
(* A lookup outside the frame sequence is undefined: the call crashes or   *)
(* the gradient is anything.                                               *)
ScharrIter ==
    /\ pc = "sample_loop"
    /\ it <= Len(points)
    /\ LET pt == points[it]
           bad == \E l \in ScharrLookups(pt) : ~InImages(images, l)
       IN  /\ oob' = (oob \/ bad)
           /\ \E res \in (IF bad THEN Undefined(AnyGradient)
                                 ELSE Defined(cv_imgs_point_scharr(images, pt))) :
                LET grad == res.v IN
                IF res.crash
                THEN /\ pc' = "crash"
                     /\ UNCHANGED <<re, it, cont, tmp_last, tmp_max, tmp_g>>
                ELSE /\ pc' = pc
                     /\ it' = it + 1
                     /\ IF grad >= Scaled(grad_threshold)
                        THEN IF ~cont
                             THEN /\ tmp_last' = pt
                                  /\ tmp_max' = pt
                                  /\ tmp_g' = grad
                                  /\ cont' = TRUE
                                  /\ re' = re
                             ELSE IF point_cont(tmp_last, pt)
                             THEN /\ tmp_last' = pt
                                  /\ tmp_g' = (IF grad >= tmp_g THEN grad ELSE tmp_g)
                                  /\ tmp_max' = (IF grad >= tmp_g THEN pt ELSE tmp_max)
                                  /\ cont' = cont
                                  /\ re' = re
                             ELSE /\ re' = Append(re, tmp_max)
                                  /\ cont' = FALSE
                                  /\ UNCHANGED <<tmp_last, tmp_max, tmp_g>>
                        ELSE UNCHANGED <<re, cont, tmp_last, tmp_max, tmp_g>>
    /\ UNCHANGED <<images, grad_threshold, deref>>
    /\ UNCHANGED rvars
    /\ UNCHANGED xvars

(* ScharrReturn without the push_back of line 884 / 928 *)
ScharrReturn_NoLast ==
    /\ pc = "sample_loop"
    /\ it > Len(points)
    /\ pc' = "done"
    /\ UNCHANGED <<re, deref>>
    /\ UNCHANGED <<images, grad_threshold, it, cont, tmp_last, tmp_max, tmp_g, oob>>
    /\ UNCHANGED rvars
    /\ UNCHANGED xvars

(* lines 884-885 / 928-929: the last rasterized point is pushed; on an     *)
(* empty vector *rbegin() is undefined                                     *)
ScharrReturn ==
    /\ pc = "sample_loop"
    /\ it > Len(points)
    /\ IF Len(points) > 0
       THEN /\ re' = Append(re, points[Len(points)])
            /\ pc' = "done"
            /\ deref' = deref
       ELSE /\ deref' = TRUE
            /\ \E last \in Undefined(AnyScalar) :
                 IF last.crash
                 THEN re' = re /\ pc' = "crash"
                 ELSE re' = Append(re, last.v) /\ pc' = "done"
    /\ UNCHANGED <<images, grad_threshold, it, cont, tmp_last, tmp_max, tmp_g, oob>>
    /\ UNCHANGED rvars
    /\ UNCHANGED xvars

(* ---------------- bound_scalar_3d, cv_imgs_point_var_loc -------------- *)

(* bound_scalar_3d without the test point[i] - radius[i] < 0 *)
bound_scalar_3d_NoLeftClamp(pt, r, b) ==
    LET left_up_most == [i \in 1..3 |-> pt[i] - r[i]]
        right_down_most == [i \in 1..3 |->
            IF pt[i] + r[i] >= b[i] THEN b[i] - 1 ELSE pt[i] + r[i]]
    IN  <<left_up_most, right_down_most>>

(* lines 417-429 *)
bound_scalar_3d(pt, r, b) ==
    LET left_up_most == [i \in 1..3 |->
            IF pt[i] - r[i] < 0 THEN 0 ELSE pt[i] - r[i]]
        right_down_most == [i \in 1..3 |->
            IF pt[i] + r[i] >= b[i] THEN b[i] - 1 ELSE pt[i] + r[i]]
    IN  <<left_up_most, right_down_most>>

(* radius components: 0, 1 and 2, whose quotients (c - point) / radius     *)
(* and their squares are exact in a double                                 *)
Radii == {0, 1, 2}

(* lines 252-259: p1 + p2 + p3 <= 1.0, every term brought to the common    *)
(* denominator; an axis of radius 0 contributes 0                          *)
InEllipsoid(c, pt, r) ==
    LET R == [i \in 1..3 |-> IF r[i] > 0 THEN r[i] * r[i] ELSE 1]
        D == [i \in 1..3 |->
                IF r[i] > 0 THEN (c[i] - pt[i]) * (c[i] - pt[i]) ELSE 0]
    IN  D[1] * R[2] * R[3] + D[2] * R[1] * R[3] + D[3] * R[1] * R[2]
            <= R[1] * R[2] * R[3]

(* lines 228-263: the pixels collected in point_set *)
point_set(imgs, pt, r) ==
    LET bounds == bound_scalar_3d(pt, r, <<ImgW, ImgH, Len(imgs)>>)
        left_up_most == bounds[1]
        right_down_most == bounds[2]
    IN  {c \in (left_up_most[1]..right_down_most[1])
                 \X (left_up_most[2]..right_down_most[2])
                 \X (left_up_most[3]..right_down_most[3]) :
            InEllipsoid(c, pt, r)}

RECURSIVE SumOver(_, _, _)
SumOver(S, imgs, power) ==
    IF S = {} THEN 0
    ELSE LET c == CHOOSE x \in S : TRUE
             v == Pixel(imgs, c[3], c[2], c[1])
         IN  (IF power = 2 THEN v * v ELSE v) + SumOver(S \ {c}, imgs, power)

(* no local variance computed yet *)
NoVar == [kind |-> "none", n |-> 0, sq_num |-> 0, sq_den |-> 1]

(* lines 225-297 on grey frames (the three channels hold Pixel).  With n   *)
(* pixels of values x the sum of squared residuals of a channel is         *)
(* (n * sum(x^2) - sum(x)^2) / n, so the value returned,                   *)
(* 3 * sqrt(that / (n - 1)), has the square sq_num / sq_den.  For n = 1    *)
(* var[channel] / (count - 1) is 0.0 / 0.0, a NaN, and so is the sum; for  *)
(* n = 0 it is 0.0 / -1.0 and the sum is -0.0.  No path throws.            *)
cv_imgs_point_var_loc(imgs, pt, r) ==
    LET S == point_set(imgs, pt, r)
        count == Cardinality(S)
        sum == SumOver(S, imgs, 1)
        squares == SumOver(S, imgs, 2)
    IN  IF count = 1
        THEN [kind |-> "nan", n |-> count, sq_num |-> 0, sq_den |-> 1]
        ELSE IF count = 0
        THEN [kind |-> "number", n |-> count, sq_num |-> 0, sq_den |-> 1]
        ELSE [kind |-> "number", n |-> count,
              sq_num |-> 9 * (count * squares - sum * sum),
              sq_den |-> count * (count - 1)]

(* lines 450 / 474: var >= var_threshold; every comparison with a NaN is   *)
(* false                                                                   *)
VarGeq(v, T) == v.kind = "number" /\ v.sq_num >= T * T * v.sq_den

(* lines 431-439 / 455-463 after the rasterizer has returned *)
VarBegin ==
    /\ pc = "sample_begin"
    /\ re' = <<>>
    /\ it' = 1
    /\ pc' = "var_loop"
    /\ UNCHANGED <<images, grad_threshold, cont, tmp_last, tmp_max, tmp_g, oob,
                   deref>>
    /\ UNCHANGED rvars
    /\ UNCHANGED xvars

(* lines 440-451 / 464-475: one iteration of the loop over line_points *)
VarIter ==
    /\ pc = "var_loop"
    /\ it <= Len(points)
    /\ LET pt == points[it]
           v == cv_imgs_point_var_loc(images, pt, radius)
       IN  /\ var' = v
           /\ re' = IF VarGeq(v, var_threshold) THEN Append(re, pt) ELSE re
           /\ nan_dropped' = IF v.kind = "nan" THEN Append(nan_dropped, pt)
                             ELSE nan_dropped
    /\ it' = it + 1
    /\ UNCHANGED <<images, grad_threshold, cont, tmp_last, tmp_max, tmp_g, oob,
                   deref>>
    /\ UNCHANGED rvars
    /\ UNCHANGED <<pc, scale, unscaled, call, radius, box, var_threshold,
                   fitvars, histvars>>

(* lines 452 / 476 *)
VarReturn ==
    /\ pc = "var_loop"
    /\ it > Len(points)
    /\ pc' = "done"
    /\ UNCHANGED svars
    /\ UNCHANGED rvars
    /\ UNCHANGED xvars

(* a direct call of bound_scalar_3d(point, radius, bound) *)
BoundScalar3d ==
    /\ pc = "entry"
    /\ fn = "bound_scalar_3d"
    /\ box' = bound_scalar_3d(point, radius, bound)
    /\ pc' = "done"
    /\ UNCHANGED svars
    /\ UNCHANGED rvars
    /\ UNCHANGED <<scale, unscaled, call, radius, var, var_threshold,
                   nan_dropped, fitvars, histvars>>

(* ------------------------------ fit_ellipse --------------------------- *)

(* outputs a fit can leave in centre (column, row) and in param *)
AnyCentre == {0, 1} \X {0, 1}

AnyParam == {<<2, 1, 90>>, <<1, 1, 180>>}

(* line 739: assert(points.size() >= 5).  The macro expands to nothing     *)
(* when the build defines NDEBUG; otherwise a failed assertion aborts.     *)
FitEllipseAssert ==
    /\ pc = "entry"
    /\ fn = "fit_ellipse"
    /\ pc' = IF NDEBUG \/ Len(points) >= 5 THEN "fit_body" ELSE "abort"
    /\ UNCHANGED svars
    /\ UNCHANGED rvars
    /\ UNCHANGED xvars

(* lines 740-807: frame = points[0][2], the design matrix D, the           *)
(* eigenvectors of inv(S) * C, then the assignments to centre and param.   *)
(* points[0] of an empty vector is undefined: the call crashes or frame is *)
(* anything.  With fewer than 5 points S = D^T * D is singular: inv()      *)
(* throws std::runtime_error, or rounding hides the singularity and the    *)
(* outputs are assigned from whatever the decomposition gives.  The fitted *)
(* numbers themselves are not computed here: any value of AnyCentre and    *)
(* AnyParam can come out.                                                  *)
FitEllipseBody ==
    /\ pc = "fit_body"
    /\ \E first \in (IF Len(points) = 0 THEN Undefined({<<0, 0, 0>>, <<0, 0, 1>>})
                                        ELSE Defined(points[1])) :
         IF first.crash
         THEN /\ pc' = "crash"
              /\ touched' = touched \cup {"points[0]"}
              /\ UNCHANGED <<centre, param>>
         ELSE LET frame == first.v[3] IN
              \/ /\ Len(points) < 5
                 /\ pc' = "runtime_error"
                 /\ touched' = touched \cup {"points[0]", "D"}
                 /\ UNCHANGED <<centre, param>>
              \/ /\ \E xy \in AnyCentre : centre' = <<xy[1], xy[2], frame>>
                 /\ param' \in AnyParam
                 /\ touched' = touched \cup {"points[0]", "D"}
                 /\ pc' = "done"
    /\ UNCHANGED NDEBUG
    /\ UNCHANGED svars
    /\ UNCHANGED rvars
    /\ UNCHANGED <<scale, unscaled, call, locvars, histvars>>

(* ------------------------------ compare_hist -------------------------- *)

(* line 947: the histograms have 32 bins *)
NumBins == 32

(* lines 339-389 for the radius (0, 0, 0) of lines 939 and 942, on grey    *)
(* frames: the average over point_set, as the pair (sum, count) per        *)
(* channel                                                                 *)
cv_imgs_point_color_loc(imgs, pt, r) ==
    LET S == point_set(imgs, pt, r)
        avg == [sum |-> SumOver(S, imgs, 1), count |-> Cardinality(S)]
    IN  <<avg, avg, avg>>

(* lines 950 / 963: int f = lab[channel] / 8 *)
Bin(lab) == (lab.sum \div lab.count) \div 8

(* lines 945-970: freq(channel, f), bins counted from 1 *)
Freq(colors, channel) ==
    [f \in 1..NumBins |->
        Cardinality({i \in 1..Len(colors) : Bin(colors[i][channel]) + 1 = f})]

RECURSIVE SumRow(_, _)
SumRow(freq, f) == IF f = 0 THEN 0 ELSE freq[f] + SumRow(freq, f - 1)

(* lines 976-982: a histogram cell (freq + 0.0001) / (sum + 0.0032) as the *)
(* pair of integers that determines it                                     *)
Hist(freq) == [f \in 1..NumBins |-> <<freq[f], SumRow(freq, NumBins)>>]

(* lines 989-994: the sum over f = 0..31, in that order, of                *)
(* hist_a * log2(hist_a / hist_b), as the sequence of its operands         *)
Divergence(hist_a, hist_b) == [f \in 1..NumBins |-> <<hist_a[f], hist_b[f]>>]

(* (a + b) / 2 that leaves b out *)
Average_FirstOnly(a, b) == {a}

(* line 995: (D_1_2 + D_2_1) / 2.  A floating-point sum does not depend on *)
(* the order of its two operands and on nothing but them: the set {a, b}.  *)
Average(a, b) == {a, b}

(* lines 932-1003.  The value returned is the root mean square of the      *)
(* three kls, in the order of the channels: it is given here as the        *)
(* sequence of the three.                                                  *)
compare_hist(imgs, pts_1, pts_2) ==
    LET colors_1 == [i \in 1..Len(pts_1) |->
                        cv_imgs_point_color_loc(imgs, pts_1[i], Origin)]
        colors_2 == [i \in 1..Len(pts_2) |->
                        cv_imgs_point_color_loc(imgs, pts_2[i], Origin)]
        hist_1(ch) == Hist(Freq(colors_1, ch))
        hist_2(ch) == Hist(Freq(colors_2, ch))
        D_1_2(ch) == Divergence(hist_1(ch), hist_2(ch))
        D_2_1(ch) == Divergence(hist_2(ch), hist_1(ch))
    IN  [ch \in 1..3 |-> Average(D_1_2(ch), D_2_1(ch))]

(* compare_hist(images, points_1, points_2) *)
CompareHist ==
    /\ pc = "entry"
    /\ fn = "compare_hist"
    /\ kl' = compare_hist(images, points_1, points_2)
    /\ pc' = "swap"
    /\ UNCHANGED svars
    /\ UNCHANGED rvars
    /\ UNCHANGED <<scale, unscaled, call, locvars, fitvars, points_1, points_2,
                   kl_swapped>>

(* the caller's second call: compare_hist(images, points_2, points_1) *)
CompareHistSwapped ==
    /\ pc = "swap"
    /\ kl_swapped' = compare_hist(images, points_2, points_1)
    /\ pc' = "done"
    /\ UNCHANGED svars
    /\ UNCHANGED rvars
    /\ UNCHANGED <<scale, unscaled, call, locvars, fitvars, points_1, points_2,
                   kl>>

(* --------------------------- specifications --------------------------- *)

(* the values of the variables an entry point does not use *)
ScaleIdle == scale = 1 /\ unscaled = <<>> /\ call = 1

LocIdle ==
    /\ radius = Origin
    /\ box = <<>>
    /\ var = NoVar
    /\ var_threshold = 0
    /\ nan_dropped = <<>>

FitIdle == NDEBUG = FALSE /\ centre = <<>> /\ param = <<>> /\ touched = {}

HistIdle == points_1 = <<>> /\ points_2 = <<>> /\ kl = <<>> /\ kl_swapped = <<>>

XIdle == ScaleIdle /\ LocIdle /\ FitIdle /\ HistIdle

RasterInit ==
    /\ fn \in RasterFns
    /\ bound \in Bounds
    /\ IF fn = "get_line_points"
       THEN /\ point \in Points
            /\ direction \in Directions
            /\ start = Origin /\ end = Origin
       ELSE /\ start \in Points
            /\ end \in Points
            /\ point = Origin /\ direction = Origin
    /\ pc = "entry"
    /\ depth = 0
    /\ current = Origin
    /\ inc = Origin
    /\ target = Origin
    /\ delta = Origin
    /\ points = <<>>
    /\ images = <<>>
    /\ grad_threshold = 0
    /\ re = <<>>
    /\ it = 0
    /\ cont = FALSE
    /\ tmp_last = Origin
    /\ tmp_max = Origin
    /\ tmp_g = 0
    /\ oob = FALSE
    /\ deref = FALSE
    /\ XIdle

RasterNext ==
    \/ GetLinePointsEnter
    \/ Bresenham
    \/ GetLinePointsTurn
    \/ GetLinePointsReturn
    \/ GetLineSegPointsEnter
    \/ GetLineSegPointsWhile
    \/ GetLineSegPointsReturn

RasterSpec == RasterInit /\ [][RasterNext]_vars

SamplerFns == {"cv_line_pts_scharr_geq_T", "cv_line_seg_pts_scharr_geq_T"}

(* the sampler's seed, start and end: the border column and the last       *)
(* interior column, the last interior row, every frame and one frame       *)
(* before and after the sequence                                           *)
SamplePoints == {0, ImgW - 2} \X {ImgH - 2} \X (-1..ImgD)

(* in halves: 0, 1/2 and 1 along the columns, 0 and 1 along the rows,      *)
(* -1, 0 and 1 along the frames                                            *)
SampleDirections == {0, 1, 2} \X {0, 2} \X {-2, 0, 2}

GradThresholds == {5, 15}

SamplerInit ==
    /\ fn \in SamplerFns
    /\ images \in [1..ImgD -> Slopes]
    /\ grad_threshold \in GradThresholds
    /\ bound = <<ImgW, ImgH, Len(images)>>
    /\ IF fn = "cv_line_pts_scharr_geq_T"
       THEN /\ point \in SamplePoints
            /\ direction \in SampleDirections
            /\ start = Origin /\ end = Origin
       ELSE /\ start \in SamplePoints
            /\ end \in SamplePoints
            /\ point = Origin /\ direction = Origin
    /\ pc = "entry"
    /\ depth = 0
    /\ current = Origin
    /\ inc = Origin
    /\ target = Origin
    /\ delta = Origin
    /\ points = <<>>
    /\ re = <<>>
    /\ it = 0
    /\ cont = FALSE
    /\ tmp_last = Origin
    /\ tmp_max = Origin
    /\ tmp_g = 0
    /\ oob = FALSE
    /\ deref = FALSE
    /\ XIdle

SamplerNext ==
    \/ GetLinePointsEnter
    \/ Bresenham
    \/ GetLinePointsTurn
    \/ GetLinePointsReturn
    \/ GetLineSegPointsEnter
    \/ GetLineSegPointsWhile
    \/ GetLineSegPointsReturn
    \/ ScharrBegin
    \/ ScharrIter
    \/ ScharrReturn

SamplerSpec == SamplerInit /\ [][SamplerNext]_vars

(* ------------------------- rasterizer claims -------------------------- *)

Last(s) == s[Len(s)]

SegDone == pc = "done" /\ fn = "get_line_seg_points"

LineDone == pc = "done" /\ fn = "get_line_points"

AllInCanvas(s, b) == \A i \in 1..Len(s) : ~out_of_canvas(s[i], b)

IsInteger(dir) == \A a \in 1..3 : dir[a] % 2 = 0

(* C1 as stated: whenever start # end and at least one of them is in       *)
(* canvas, the last element of get_line_seg_points(start, end, bound) is   *)
(* the caller's end.                                                       *)
C1_LastIsCallersEnd ==
    (SegDone /\ start # end
        /\ (~out_of_canvas(start, bound) \/ ~out_of_canvas(end, bound)))
    => (Len(points) > 0 /\ Last(points) = end)

(* C1 amended: whenever start # end and at least one of them is in canvas, *)
(* the last element is the caller's end when start is in canvas, and the   *)
(* caller's start when start is out of canvas (the two were swapped, so    *)
(* the sequence then begins with the caller's end).                        *)
C1_LastIsEndAfterSwap ==
    (SegDone /\ start # end
        /\ (~out_of_canvas(start, bound) \/ ~out_of_canvas(end, bound)))
    => /\ Len(points) >= 2
       /\ Last(points) = (IF out_of_canvas(start, bound) THEN start ELSE end)
       /\ points[1] = (IF out_of_canvas(start, bound) THEN end ELSE start)

C1_Witness ==
    /\ SegDone
    /\ out_of_canvas(start, bound) /\ ~out_of_canvas(end, bound)
    /\ Len(points) >= 3
    /\ Last(points) = start

(* C2: every point returned by get_line_seg_points is in canvas.           *)
C2_SegPointsInCanvas == SegDone => AllInCanvas(points, bound)

(* C8: every point returned by get_line_points is in canvas, for every     *)
(* seed (in canvas or not) and every non-zero direction.                   *)
C8_LinePointsInCanvas ==
    (LineDone /\ direction # Origin) => AllInCanvas(points, bound)

(* C9: get_line_points runs to completion for every non-zero direction,    *)
(* components of magnitude below 1 included: the chain of recursive        *)
(* bresenham() calls ends, so it never exhausts the call stack.            *)
C9_RayExtensionTerminates == pc # "stack_overflow"

(* the axes of largest |direction| *)
Driving(dir) == {a \in 1..3 : \A o \in 1..3 : Abs(dir[a]) >= Abs(dir[o])}

(* C10: for an in-canvas seed and a non-zero integer direction the result  *)
(* of get_line_points holds the seed exactly once and, from each element   *)
(* to the next, the driving-axis coordinate changes by exactly 1 in the    *)
(* sign of the direction's driving component while every other coordinate  *)
(* changes by at most 1.                                                   *)
C10_LineOrdered ==
    (LineDone /\ ~out_of_canvas(point, bound)
        /\ direction # Origin /\ IsInteger(direction))
    => /\ Cardinality({i \in 1..Len(points) : points[i] = point}) = 1
       /\ \A i \in 1..(Len(points) - 1) :
            /\ \A a \in Driving(direction) :
                 points[i + 1][a] - points[i][a] = Sign(direction[a])
            /\ \A a \in 1..3 : Abs(points[i + 1][a] - points[i][a]) <= 1

C10_Witness ==
    /\ LineDone
    /\ ~out_of_canvas(point, bound)
    /\ IsInteger(direction)
    /\ Abs(direction[1]) > Abs(direction[2]) /\ Abs(direction[2]) > 0
    /\ Len(points) >= 3
    /\ points[1] # point /\ Last(points) # point
    /\ \E i \in 1..(Len(points) - 1) : points[i + 1][2] # points[i][2]
    /\ \E i \in 1..(Len(points) - 1) : points[i + 1][2] = points[i][2]

(* -------------------------- sampler claims ---------------------------- *)

(* a gradient sampler returned and every read it made was defined *)
SampleDone == pc = "done" /\ fn \in SamplerFns /\ ~oob /\ ~deref

Grad(i) == cv_imgs_point_scharr(images, points[i])

(* indices of the rasterized points whose gradient is >= the threshold *)
Qualifying == {i \in 1..Len(points) : Grad(i) >= Scaled(grad_threshold)}

(* i qualifies and is Chebyshev-adjacent to the previous qualifying point *)
Linked(i) ==
    /\ i \in Qualifying
    /\ \E j \in Qualifying :
         /\ j < i
         /\ \A m \in Qualifying : m < i => m <= j
         /\ point_cont(points[j], points[i])

(* the maximal run that begins at the qualifying, not linked, index s *)
RunFrom(s) ==
    {i \in Qualifying :
        i >= s /\ \A j \in Qualifying : (s < j /\ j <= i) => Linked(j)}

Runs == {RunFrom(s) : s \in {i \in Qualifying : ~Linked(i)}}

MaxOf(R) == {i \in R : \A j \in R : Grad(i) >= Grad(j)}

InOutput(i) == \E k \in 1..Len(re) : re[k] = points[i]

(* C3: for every maximal run of qualifying points, each adjacent to the    *)
(* previous qualifying point, the output contains the run's               *)
(* maximum-gradient point; the last run and a run that begins where        *)
(* adjacency broke included.                                               *)
C3_EveryRunKeepsItsMax ==
    SampleDone => \A R \in Runs : \E i \in MaxOf(R) : InOutput(i)

(* C4: the output never contains two points of one run, and a point of a   *)
(* run that is in the output is the run's maximum-gradient point.          *)
C4_OnlyTheMaxOfARun ==
    SampleDone =>
        \A R \in Runs :
            /\ \A i \in R : InOutput(i) => i \in MaxOf(R)
            /\ Cardinality({i \in R : InOutput(i)}) <= 1

(* C5: whenever the rasterized sequence is non-empty, the output of a      *)
(* gradient sampler begins with the first rasterized point and ends with   *)
(* the last one, whatever their gradients and the threshold.              *)
C5_AnchorsFirstAndLast ==
    (pc = "done" /\ fn \in SamplerFns /\ Len(points) > 0)
    => /\ Len(re) >= 2
       /\ re[1] = points[1]
       /\ re[Len(re)] = points[Len(points)]

C5_Witness ==
    /\ SampleDone
    /\ Len(points) >= 4
    /\ Len(re) >= 3
    /\ 1 \notin Qualifying
    /\ Len(points) \notin Qualifying

(* C6: every pixel lookup of a threshold sampler uses a frame index in     *)
(* [0, frames-1], a row in [0, height-1] and a column in [0, width-1].     *)
C6_LookupsInsideImages == ~oob

(* C7: when the rasterization is empty the gradient samplers return an     *)
(* empty sequence, without raising and without reading an element of the   *)
(* empty rasterized sequence.                                              *)
C7_EmptyRasterEmptyResult ==
    (fn \in SamplerFns /\ Len(points) = 0)
    => /\ ~deref
       /\ pc # "crash"
       /\ (pc = "done" => re = <<>>)

(* --------------------- rasterizer claims, continued ------------------- *)

InCanvas(p) == ~out_of_canvas(p, bound)

(* C12: get_line_seg_points returns the empty sequence if and only if      *)
(* start = end or both endpoints are out of canvas; otherwise its first    *)
(* element is an in-canvas endpoint: start, or end when start is outside.  *)
C12_EmptyIffDegenerate ==
    SegDone =>
        /\ (points = <<>>) <=> (start = end \/ (~InCanvas(start) /\ ~InCanvas(end)))
        /\ points # <<>> =>
             /\ InCanvas(points[1])
             /\ points[1] = (IF InCanvas(start) THEN start ELSE end)

C12_Witness ==
    /\ SegDone
    /\ ~InCanvas(start) /\ InCanvas(end)
    /\ points # <<>>
    /\ points[1] = end

(* C17: get_line_points with the zero direction returns the empty          *)
(* sequence for every point and bound, without raising and without         *)
(* invoking bresenham().                                                   *)
C17_ZeroDirectionEmpty ==
    (fn = "get_line_points" /\ direction = Origin)
    => /\ pc \in {"entry", "done"}
       /\ depth = 0
       /\ points = <<>>

C17_Witness ==
    /\ LineDone
    /\ direction = Origin
    /\ InCanvas(point)
    /\ points = <<>>

Max(S) == CHOOSE m \in S : \A o \in S : m >= o

(* the driving axis of a segment: the largest |delta|, ties resolved       *)
(* column, then row, then frame                                            *)
DrivingAxis(d) ==
    IF Abs(d[1]) >= Abs(d[2]) /\ Abs(d[1]) >= Abs(d[3]) THEN 1
    ELSE IF Abs(d[2]) >= Abs(d[3]) THEN 2
    ELSE 3

Between(v, a, b) == (a <= v /\ v <= b) \/ (b <= v /\ v <= a)

(* C18: when start # end and both are in canvas, get_line_seg_points       *)
(* returns the Bresenham path from start to end: max(|dx|,|dy|,|dz|) + 1   *)
(* points, the first start and the last end, the driving-axis coordinate   *)
(* advancing by exactly 1 per element and every other coordinate changing  *)
(* by at most 1, no point repeated, every point in the bounding box of     *)
(* start and end.                                                          *)
C18_SegmentIsBresenhamPath ==
    (SegDone /\ start # end /\ InCanvas(start) /\ InCanvas(end))
    => LET d == <<end[1] - start[1], end[2] - start[2], end[3] - start[3]>>
           a == DrivingAxis(d)
       IN  /\ Len(points) = Max({Abs(d[1]), Abs(d[2]), Abs(d[3])}) + 1
           /\ points[1] = start
           /\ points[Len(points)] = end
           /\ \A i \in 1..(Len(points) - 1) :
                /\ points[i + 1][a] - points[i][a] = Sign(d[a])
                /\ \A o \in 1..3 : Abs(points[i + 1][o] - points[i][o]) <= 1
           /\ \A i, j \in 1..Len(points) : points[i] = points[j] => i = j
           /\ \A i \in 1..Len(points) : \A o \in 1..3 :
                Between(points[i][o], start[o], end[o])

C18_Witness ==
    /\ SegDone
    /\ InCanvas(start) /\ InCanvas(end)
    /\ Abs(end[1] - start[1]) = 3
    /\ Abs(end[2] - start[2]) = 2
    /\ end[3] = start[3]
    /\ Len(points) = 4
    /\ \A i \in 1..Len(points) : points[i][3] = start[3]

(* ------------------ get_line_points: scaled direction ----------------- *)

(* the integer directions of Directions, the zero direction left out *)
IntegerDirections ==
    {d \in Directions : IsInteger(d)} \ {Origin}

Scales == 1..MaxScale

(* get_line_points(point, direction, bound), to be followed by             *)
(* get_line_points(point, scale * direction, bound)                        *)
ScaleInit ==
    /\ fn = "get_line_points"
    /\ bound \in Bounds
    /\ point \in {p \in Points : ~out_of_canvas(p, bound)}
    /\ direction \in IntegerDirections
    /\ start = Origin /\ end = Origin
    /\ pc = "entry"
    /\ depth = 0
    /\ current = Origin
    /\ inc = Origin
    /\ target = Origin
    /\ delta = Origin
    /\ points = <<>>
    /\ images = <<>>
    /\ grad_threshold = 0
    /\ re = <<>>
    /\ it = 0
    /\ cont = FALSE
    /\ tmp_last = Origin
    /\ tmp_max = Origin
    /\ tmp_g = 0
    /\ oob = FALSE
    /\ deref = FALSE
    /\ scale \in Scales
    /\ unscaled = <<>>
    /\ call = 1
    /\ LocIdle /\ FitIdle /\ HistIdle

(* the caller keeps the first result and calls get_line_points again with  *)
(* every component of the direction multiplied by scale                    *)
CallScaled ==
    /\ pc = "done"
    /\ call = 1
    /\ unscaled' = points
    /\ direction' = <<scale * direction[1], scale * direction[2],
                      scale * direction[3]>>
    /\ call' = 2
    /\ points' = <<>>
    /\ pc' = "entry"
    /\ UNCHANGED <<fn, point, start, end, bound, depth, current, inc, target,
                   delta>>
    /\ UNCHANGED svars
    /\ UNCHANGED <<scale, locvars, fitvars, histvars>>

ScaleNext ==
    \/ GetLinePointsEnter
    \/ Bresenham
    \/ GetLinePointsTurn
    \/ GetLinePointsReturn
    \/ CallScaled

ScaleSpec == ScaleInit /\ [][ScaleNext]_vars

(* C11: for an in-canvas seed, a non-zero integer direction d and a        *)
(* positive integer k, get_line_points with k * d returns the sequence     *)
(* that get_line_points with d returned.                                   *)
C11_ScaleInvariant ==
    (pc = "done" /\ call = 2) => points = unscaled

C11_Witness ==
    /\ pc = "done"
    /\ call = 2
    /\ scale = MaxScale
    /\ Abs(direction[1]) = 2 * Abs(direction[2])
    /\ direction[2] # 0
    /\ Len(points) = MaxW
    /\ points = unscaled

(* both calls of C11 return *)
ScaleCallsReturn == pc # "stack_overflow"

(* ---------------------------- bound_scalar_3d ------------------------- *)

BoxInit ==
    /\ fn = "bound_scalar_3d"
    /\ bound \in Bounds
    /\ point \in Points
    /\ radius \in Radii \X Radii \X Radii
    /\ direction = Origin
    /\ start = Origin /\ end = Origin
    /\ pc = "entry"
    /\ depth = 0
    /\ current = Origin
    /\ inc = Origin
    /\ target = Origin
    /\ delta = Origin
    /\ points = <<>>
    /\ images = <<>>
    /\ grad_threshold = 0
    /\ re = <<>>
    /\ it = 0
    /\ cont = FALSE
    /\ tmp_last = Origin
    /\ tmp_max = Origin
    /\ tmp_g = 0
    /\ oob = FALSE
    /\ deref = FALSE
    /\ box = <<>>
    /\ var = NoVar
    /\ var_threshold = 0
    /\ nan_dropped = <<>>
    /\ ScaleIdle /\ FitIdle /\ HistIdle

BoxNext == BoundScalar3d

BoxSpec == BoxInit /\ [][BoxNext]_vars

BoxDone == fn = "bound_scalar_3d" /\ pc = "done"

VarFns == {"cv_line_pts_var_geq_T", "cv_line_seg_pts_var_geq_T"}

(* frames of alternating ramp slopes *)
VarImages == {[f \in 1..ImgD |-> IF f % 2 = 1 THEN a ELSE b] : a, b \in Slopes}

VarThresholds == {0, 15}

LocRadii == {Origin, <<1, 1, 1>>, <<2, 1, 0>>}

VarInit ==
    /\ fn \in VarFns
    /\ images \in VarImages
    /\ var_threshold \in VarThresholds
    /\ radius \in LocRadii
    /\ bound = <<ImgW, ImgH, Len(images)>>
    /\ IF fn = "cv_line_pts_var_geq_T"
       THEN /\ point \in SamplePoints
            /\ direction \in SampleDirections
            /\ start = Origin /\ end = Origin
       ELSE /\ start \in SamplePoints
            /\ end \in SamplePoints
            /\ point = Origin /\ direction = Origin
    /\ pc = "entry"
    /\ depth = 0
    /\ current = Origin
    /\ inc = Origin
    /\ target = Origin
    /\ delta = Origin
    /\ points = <<>>
    /\ grad_threshold = 0
    /\ re = <<>>
    /\ it = 0
    /\ cont = FALSE
    /\ tmp_last = Origin
    /\ tmp_max = Origin
    /\ tmp_g = 0
    /\ oob = FALSE
    /\ deref = FALSE
    /\ box = <<>>
    /\ var = NoVar
    /\ nan_dropped = <<>>
    /\ ScaleIdle /\ FitIdle /\ HistIdle

VarNext ==
    \/ GetLinePointsEnter
    \/ Bresenham
    \/ GetLinePointsTurn
    \/ GetLinePointsReturn
    \/ GetLineSegPointsEnter
    \/ GetLineSegPointsWhile
    \/ GetLineSegPointsReturn
    \/ VarBegin
    \/ VarIter
    \/ VarReturn

VarSpec == VarInit /\ [][VarNext]_vars

(* C14: a local variance over n <= 1 qualifying pixels ends in a           *)
(* NumericalError, never in a number or a NaN, and the variance samplers   *)
(* leave no point out because its variance compared as a NaN.              *)
C14_SmallNeighbourhoodIsError ==
    /\ (var.kind # "none" /\ var.n <= 1) => var.kind = "NumericalError"
    /\ nan_dropped = <<>>

(* ------------------------------ fit_ellipse --------------------------- *)

(* six points of one frame *)
EllipsePoints ==
    <<<<2, 0, 1>>, <<0, 1, 1>>, <<1, 2, 1>>, <<3, 2, 1>>, <<4, 1, 1>>,
      <<3, 0, 1>>>>

(* the prefixes of EllipsePoints, the empty one included *)
FitInputs == {SubSeq(EllipsePoints, 1, n) : n \in 0..Len(EllipsePoints)}

FitInit ==
    /\ fn = "fit_ellipse"
    /\ points \in FitInputs
    /\ NDEBUG \in BOOLEAN
    /\ centre \in {Origin, <<1, 1, 1>>, <<0, 1, 0>>}
    /\ param \in {Origin, <<2, 1, 90>>, <<1, 1, 0>>}
    /\ touched = {}
    /\ bound = <<MaxW, MaxH, MaxD>>
    /\ point = Origin /\ direction = Origin
    /\ start = Origin /\ end = Origin
    /\ pc = "entry"
    /\ depth = 0
    /\ current = Origin
    /\ inc = Origin
    /\ target = Origin
    /\ delta = Origin
    /\ images = <<>>
    /\ grad_threshold = 0
    /\ re = <<>>
    /\ it = 0
    /\ cont = FALSE
    /\ tmp_last = Origin
    /\ tmp_max = Origin
    /\ tmp_g = 0
    /\ oob = FALSE
    /\ deref = FALSE
    /\ ScaleIdle /\ LocIdle /\ HistIdle

FitNext ==
    \/ FitEllipseAssert
    \/ FitEllipseBody

FitSpec == FitInit /\ [][FitNext]_vars

(* C15: with fewer than 5 points every step of fit_ellipse is the          *)
(* rejection of the argument: the call fails, centre and param keep the    *)
(* caller's values, points[0] is not read and the design matrix is not     *)
(* built.  The failed assertion is what the code has for InvalidArgument.  *)
C15_FewPointsRejected ==
    [][(fn = "fit_ellipse" /\ Len(points) < 5)
        => /\ pc' = "abort"
           /\ centre' = centre
           /\ param' = param
           /\ touched' = {}]_vars

(* ------------------------------ compare_hist -------------------------- *)

HistPoints == {0, ImgW - 1} \X {ImgH - 2} \X {0, 1}

(* the non-empty point sets of one or two in-canvas points *)
HistSets == {<<a>> : a \in HistPoints} \cup {<<a, b>> : a, b \in HistPoints}

HistInit ==
    /\ fn = "compare_hist"
    /\ images \in VarImages
    /\ points_1 \in HistSets
    /\ points_2 \in HistSets
    /\ kl = <<>>
    /\ kl_swapped = <<>>
    /\ bound = <<ImgW, ImgH, Len(images)>>
    /\ point = Origin /\ direction = Origin
    /\ start = Origin /\ end = Origin
    /\ pc = "entry"
    /\ depth = 0
    /\ current = Origin
    /\ inc = Origin
    /\ target = Origin
    /\ delta = Origin
    /\ points = <<>>
    /\ grad_threshold = 0
    /\ re = <<>>
    /\ it = 0
    /\ cont = FALSE
    /\ tmp_last = Origin
    /\ tmp_max = Origin
    /\ tmp_g = 0
    /\ oob = FALSE
    /\ deref = FALSE
    /\ ScaleIdle /\ LocIdle /\ FitIdle

HistNext ==
    \/ CompareHist
    \/ CompareHistSwapped

HistSpec == HistInit /\ [][HistNext]_vars

HistDone == fn = "compare_hist" /\ pc = "done"

(* C16: for non-empty in-canvas point sets compare_hist(images, points_1,  *)
(* points_2) equals compare_hist(images, points_2, points_1).              *)
C16_CompareHistSymmetric == HistDone => kl = kl_swapped

(* two point sets whose histograms differ *)
C16_Witness ==
    /\ HistDone
    /\ kl = kl_swapped
    /\ Len(points_1) = 1
    /\ Len(points_2) = 2
    /\ \E ch \in 1..3 : Cardinality(kl[ch]) = 2

====
